---- MODULE Spec2Model ----
(***************************************************************************)
(* A model of ffilib.py: the Channel (a closeable multi-producer           *)
(* multi-consumer queue built on one mutex and two condition variables)    *)
(* and the DeferredCaller that runs the calls of one library on one        *)
(* worker thread and hands the outcome back to the asyncio event loop.     *)
(*                                                                         *)
(* Every `with self.not_full:` / `with self.not_empty:` / `with            *)
(* self.mutex:` block holds the one mutex of the channel, so a block is    *)
(* one atomic step, cut only where Condition.wait() releases the mutex.    *)
(* A thread inside wait() is listed in the condition's waiter set; notify  *)
(* removes it, after which the thread may take the mutex again and go on.  *)
(***************************************************************************)
EXTENDS Integers, Sequences, FiniteSets, TLC

VARIABLES
    chan,          \* channel id -> the fields of one Channel object
    pc,            \* thread -> where the thread stands
    local,         \* thread -> the item or call the thread holds (0: none)
    added,         \* number of add() calls started so far
    enqueued,      \* channel id -> items appended (line 73), in order
    dequeued,      \* channel id -> items popped (line 83), in order
    dropped,       \* channel id -> items the deque pushed out on append
    wokenByClose,  \* threads that close() took out of a waiter set
    deferrs,       \* the DeferredCaller objects made
    calls,         \* the wrapper coroutines created so far, in creation order
    fut,           \* call -> the state of its future
    ready,         \* the event loop's queue of scheduled callbacks
    began,         \* calls whose callable was entered, in order
    sheep,         \* iterations the count_sheep task has made
    scheduled      \* the calls of call_soon_threadsafe made so far, in order

vars == <<chan, pc, local, added, enqueued, dequeued, dropped, wokenByClose,
          deferrs, calls, fut, ready, began, sheep, scheduled>>

(***************************************************************************)
(* Bounds of the model.                                                    *)
(***************************************************************************)
NumProducers == 2
NumConsumers == 2
MaxItems == 3
MaxCapacity == 1
MaxCalls == 2
MaxSheep == 1

\* maxsize=None (line 46): the deque has no maxlen
NoMaxsize == -1

(***************************************************************************)
(* collections.deque as Channel uses it                                    *)
(***************************************************************************)
\* a plain list append, which never pushes an item out
ListAppend(q, maxlen, x) == Append(q, x)

\* deque(maxlen=...).append: a full deque discards its leftmost item
DequeAppend(q, maxlen, x) ==
    IF maxlen # NoMaxsize /\ Len(q) >= maxlen
        THEN Append(Tail(q), x)
        ELSE Append(q, x)

\* the item a full deque pushes out on append, as a sequence (empty: none)
DequeOverflow(q, maxlen) ==
    IF maxlen # NoMaxsize /\ Len(q) >= maxlen THEN <<Head(q)>> ELSE <<>>

\* deque.pop(): takes the newest item
PopRight(q) == [item |-> q[Len(q)], rest |-> SubSeq(q, 1, Len(q) - 1)]

\* deque.popleft(): takes the oldest item
PopLeft(q) == [item |-> Head(q), rest |-> Tail(q)]

(***************************************************************************)
(* threading.Condition                                                     *)
(***************************************************************************)
\* notify(): one waiter, when there is one, leaves the waiter set
Notify(waiters) ==
    IF waiters = {} THEN {waiters} ELSE {waiters \ {t} : t \in waiters}

\* notify_all(): every waiter leaves the waiter set
NotifyAll(waiters) == {}

(***************************************************************************)
(* Channel                                                                 *)
(***************************************************************************)
\* Channel.__init__
NewChannel(maxsize) ==
    [queue |-> <<>>, is_open |-> TRUE, maxsize |-> maxsize,
     not_empty |-> {}, not_full |-> {}]

\* close() that wakes one waiter of each condition only
CloseNotifyOne(ch) ==
    [ch EXCEPT !.is_open = FALSE,
               !.not_empty = CHOOSE w \in Notify(ch.not_empty) : TRUE,
               !.not_full = CHOOSE w \in Notify(ch.not_full) : TRUE]

\* a close that sets the flag and wakes nobody
CloseNoWake(ch) == [ch EXCEPT !.is_open = FALSE]

\* Channel.close
CloseChannel(ch) ==
    [ch EXCEPT !.is_open = FALSE,
               !.not_empty = NotifyAll(ch.not_empty),
               !.not_full = NotifyAll(ch.not_full)]

\* Channel.add, the condition of its wait
AddMustWait(ch) ==
    ch.is_open /\ ch.maxsize # NoMaxsize /\ Len(ch.queue) >= ch.maxsize

\* Channel.add up to the wait: thread t enters not_full.wait()
AddWait(ch, t) == [ch EXCEPT !.not_full = @ \cup {t}]

\* an add that appends without looking at is_open
AddTailUnchecked(ch, item) ==
    {[ch EXCEPT !.queue = DequeAppend(ch.queue, ch.maxsize, item),
                !.not_empty = ne] : ne \in Notify(ch.not_empty)}

\* Channel.add past the wait: the channels it can leave behind
AddTail(ch, item) ==
    IF ~ch.is_open
        THEN {ch}
        ELSE {[ch EXCEPT !.queue = DequeAppend(ch.queue, ch.maxsize, item),
                         !.not_empty = ne] : ne \in Notify(ch.not_empty)}

\* Channel.__iter__, the condition of its wait
IterMustWait(ch) == ch.is_open /\ ch.queue = <<>>

\* Channel.__iter__ up to the wait: thread t enters not_empty.wait()
IterWait(ch, t) == [ch EXCEPT !.not_empty = @ \cup {t}]

\* an iteration that hands out what is buffered before it stops
IterResultDrain(ch) ==
    IF ch.queue # <<>> THEN "yield"
    ELSE IF ~ch.is_open THEN "return"
    ELSE "IndexError"

\* how one round of Channel.__iter__ ends past the wait
IterResult(ch) ==
    IF ~ch.is_open THEN "return"
    ELSE IF ch.queue = <<>> THEN "IndexError"
    ELSE "yield"

\* Channel.__iter__ past the wait when it yields: the channels it can leave
IterTail(ch) ==
    {[ch EXCEPT !.queue = PopLeft(ch.queue).rest, !.not_full = nf] :
        nf \in Notify(ch.not_full)}

(***************************************************************************)
(* Threads using one Channel directly: producers calling add, consumers    *)
(* running `for item in ch`, and close().                                  *)
(***************************************************************************)
TheChannel == 0
Producers == {<<"producer", i>> : i \in 1..NumProducers}
Consumers == {<<"consumer", i>> : i \in 1..NumConsumers}
Capacities == {NoMaxsize} \cup (1..MaxCapacity)

ChanInit ==
    /\ \E m \in Capacities : chan = [c \in {TheChannel} |-> NewChannel(m)]
    /\ pc = [t \in Producers \cup Consumers |->
                IF t \in Producers THEN "idle" ELSE "iter"]
    /\ local = [t \in Producers \cup Consumers |-> 0]
    /\ added = 0
    /\ enqueued = [c \in {TheChannel} |-> <<>>]
    /\ dequeued = [c \in {TheChannel} |-> <<>>]
    /\ dropped = [c \in {TheChannel} |-> <<>>]
    /\ wokenByClose = {}
    /\ deferrs = {}
    /\ calls = <<>>
    /\ fut = <<>>
    /\ ready = <<>>
    /\ began = <<>>
    /\ sheep = 0
    /\ scheduled = <<>>

dispVars == <<deferrs, calls, fut, ready, began, sheep, scheduled>>

\* lines 71-74 run by producer p on channel c for the item it holds
AddFinish(p, c, item) ==
    LET ch == chan[c]
    IN  /\ \E ch2 \in AddTail(ch, item) : chan' = [chan EXCEPT ![c] = ch2]
        /\ enqueued' = [enqueued EXCEPT ![c] =
                            IF ch.is_open THEN Append(@, item) ELSE @]
        /\ dropped' = [dropped EXCEPT ![c] =
                            IF ch.is_open
                                THEN @ \o DequeOverflow(ch.queue, ch.maxsize)
                                ELSE @]
        /\ local' = [local EXCEPT ![p] = 0]
        /\ pc' = [pc EXCEPT ![p] = "idle"]

\* ch.add(item), from the call to the wait or to the return; the items
\* are numbered 1, 2, ... in the order in which add is called
Add(p) ==
    /\ pc[p] = "idle"
    /\ added < MaxItems
    /\ added' = added + 1
    /\ IF AddMustWait(chan[TheChannel])
          THEN /\ chan' = [chan EXCEPT ![TheChannel] = AddWait(@, p)]
               /\ pc' = [pc EXCEPT ![p] = "add_wait"]
               /\ local' = [local EXCEPT ![p] = added + 1]
               /\ UNCHANGED <<enqueued, dropped>>
          ELSE AddFinish(p, TheChannel, added + 1)
    /\ UNCHANGED <<dequeued, wokenByClose, dispVars>>

\* ch.add(item), from the return of not_full.wait() to the return of add
AddResume(p) ==
    /\ pc[p] = "add_wait"
    /\ p \notin chan[TheChannel].not_full
    /\ AddFinish(p, TheChannel, local[p])
    /\ UNCHANGED <<added, dequeued, wokenByClose, dispVars>>

\* lines 81-85 run by thread k on channel c; on a yield the thread goes to
\* yieldPc, holding the item when its loop body uses it
IterFinish(k, c, yieldPc, keep) ==
    LET ch == chan[c]
        r == IterResult(ch)
    IN  /\ IF r = "yield"
              THEN \E ch2 \in IterTail(ch) : chan' = [chan EXCEPT ![c] = ch2]
              ELSE chan' = chan
        /\ dequeued' = [dequeued EXCEPT ![c] =
                            IF r = "yield"
                                THEN Append(@, PopLeft(ch.queue).item) ELSE @]
        /\ local' = [local EXCEPT ![k] =
                            IF r = "yield" /\ keep
                                THEN PopLeft(ch.queue).item ELSE @]
        /\ pc' = [pc EXCEPT ![k] =
                            IF r = "yield" THEN yieldPc
                            ELSE IF r = "return" THEN "returned"
                            ELSE "raised"]

\* one round of `for item in ch`, up to the wait or to the yield; the body
\* of the loop keeps nothing, so after a yield the consumer is back at the
\* top of __iter__'s loop
Iter(k) ==
    /\ pc[k] = "iter"
    /\ IF IterMustWait(chan[TheChannel])
          THEN /\ chan' = [chan EXCEPT ![TheChannel] = IterWait(@, k)]
               /\ pc' = [pc EXCEPT ![k] = "it_wait"]
               /\ UNCHANGED <<local, dequeued>>
          ELSE IterFinish(k, TheChannel, "iter", FALSE)
    /\ UNCHANGED <<added, enqueued, dropped, wokenByClose, dispVars>>

\* one round of `for item in ch`, from the return of not_empty.wait()
IterResume(k) ==
    /\ pc[k] = "it_wait"
    /\ k \notin chan[TheChannel].not_empty
    /\ IterFinish(k, TheChannel, "iter", FALSE)
    /\ UNCHANGED <<added, enqueued, dropped, wokenByClose, dispVars>>

\* ch.close(), called by any thread; a close() of a closed channel finds
\* is_open false and both waiter sets empty and changes nothing
Close ==
    /\ chan[TheChannel].is_open
    /\ wokenByClose' = wokenByClose \cup chan[TheChannel].not_empty
                                    \cup chan[TheChannel].not_full
    /\ chan' = [chan EXCEPT ![TheChannel] = CloseChannel(@)]
    /\ UNCHANGED <<pc, local, added, enqueued, dequeued, dropped, dispVars>>

ChanNext ==
    \/ \E p \in Producers : Add(p)
    \/ \E p \in Producers : AddResume(p)
    \/ \E k \in Consumers : Iter(k)
    \/ \E k \in Consumers : IterResume(k)
    \/ Close

ChanSpec == ChanInit /\ [][ChanNext]_vars

\* a thread returned from wait() is scheduled again
FairChanSpec ==
    /\ ChanSpec
    /\ \A p \in Producers : WF_vars(AddResume(p))
    /\ \A k \in Consumers : WF_vars(IterResume(k))

(***************************************************************************)
(* The example of the Channel docstring: ch = Channel(), one thread runs   *)
(* `for item in ch`, the main thread calls ch.add(1), ch.add(2), ... and   *)
(* ch.close().  The main thread's adds never wait, as the channel has no   *)
(* maxsize.                                                                *)
(***************************************************************************)
DocItems == 3

MainThread == <<"producer", 1>>

DocWorker == <<"consumer", 1>>

DocInit ==
    /\ chan = [c \in {TheChannel} |-> NewChannel(NoMaxsize)]
    /\ pc = (MainThread :> "idle") @@ (DocWorker :> "iter")
    /\ local = (MainThread :> 0) @@ (DocWorker :> 0)
    /\ added = 0
    /\ enqueued = [c \in {TheChannel} |-> <<>>]
    /\ dequeued = [c \in {TheChannel} |-> <<>>]
    /\ dropped = [c \in {TheChannel} |-> <<>>]
    /\ wokenByClose = {}
    /\ deferrs = {}
    /\ calls = <<>>
    /\ fut = <<>>
    /\ ready = <<>>
    /\ began = <<>>
    /\ sheep = 0
    /\ scheduled = <<>>

\* the worker's `for item in ch`, up to the wait or to the loop body
DocIter ==
    /\ pc[DocWorker] = "iter"
    /\ IF IterMustWait(chan[TheChannel])
          THEN /\ chan' = [chan EXCEPT ![TheChannel] = IterWait(@, DocWorker)]
               /\ pc' = [pc EXCEPT ![DocWorker] = "it_wait"]
               /\ UNCHANGED <<local, dequeued>>
          ELSE IterFinish(DocWorker, TheChannel, "body", TRUE)
    /\ UNCHANGED <<added, enqueued, dropped, wokenByClose, dispVars>>

\* the same, from the return of not_empty.wait()
DocIterResume ==
    /\ pc[DocWorker] = "it_wait"
    /\ DocWorker \notin chan[TheChannel].not_empty
    /\ IterFinish(DocWorker, TheChannel, "body", TRUE)
    /\ UNCHANGED <<added, enqueued, dropped, wokenByClose, dispVars>>

\* the loop body: print(f"Got task {item}")
DocPrint ==
    /\ pc[DocWorker] = "body"
    /\ pc' = [pc EXCEPT ![DocWorker] = "iter"]
    /\ local' = [local EXCEPT ![DocWorker] = 0]
    /\ UNCHANGED <<chan, added, enqueued, dequeued, dropped, wokenByClose,
                   dispVars>>

DocNext ==
    \/ Add(MainThread)
    \/ DocIter
    \/ DocIterResume
    \/ DocPrint
    \/ Close

DocSpec == DocInit /\ [][DocNext]_vars

(***************************************************************************)
(* DeferredCaller and the asyncio event loop it is called from.            *)
(*                                                                         *)
(* The wrapped object is any Python object; its callables are told apart   *)
(* by how the call on line 117 ends with respect to the handler on line    *)
(* 119: it returns a value, it raises an Exception, or it raises a         *)
(* BaseException that is no Exception (SystemExit, KeyboardInterrupt, ...).*)
(* A callable that never returns is a worker that stays in "exec".         *)
(***************************************************************************)
Dispatchers == deferrs
Lib == {"returns", "raises", "exits"}

\* the names asked of a DeferredCaller: those of self.lib and one it lacks
Attrs == Lib \cup {"missing"}

\* a lookup that finds every name
GetattrAny(op) == op

\* getattr(self.lib, attr, None) on line 125
Getattr(op) == IF op \in Lib THEN op ELSE "None"

\* f(*args, **kwargs) on line 117; calling what is no callable of self.lib
\* raises TypeError
Outcome(op, a) ==
    CASE op = "returns" -> [kind |-> "return", val |-> a]
      [] op = "raises" -> [kind |-> "Exception", val |-> 100 + a]
      [] op = "exits" -> [kind |-> "BaseException", val |-> 200 + a]
      [] OTHER -> [kind |-> "Exception", val |-> 300 + a]

\* `except Exception` on line 119
Caught(kind) == kind = "Exception"

\* attributes kept on the class, shared by every DeferredCaller
Shared(d) == 1

\* self.calls and self.thread are attributes of the instance
Instance(d) == d

\* self.calls of DeferredCaller d, as a channel id
CallsOf(d) == Instance(d)

\* a DeferredCaller that starts a thread per call in flight
TwoWorkerThreads(d) == {<<"worker", Instance(d)>>, <<"worker2", Instance(d)>>}

\* self.thread of DeferredCaller d: the threads running caller_thread
WorkerThreads(d) == {<<"worker", Instance(d)>>}

\* the channel worker w iterates: self.calls of the closure on line 112
IteratedBy(w) == w[2]

LoopThread == <<"loop", 0>>
Workers == DOMAIN pc \ {LoopThread}

\* Channel(maxsize) with a capacity
BoundedCalls == MaxCapacity

\* Channel() on line 110
CallsMaxsize == NoMaxsize

Pending == [state |-> "pending", val |-> 0]
NoFuture == [state |-> "none", val |-> 0]
NCalls == Len(calls)

\* DeferredCaller.__init__ run for each of the objects D, before the event
\* loop starts
DispInit(D) ==
    /\ chan = [c \in {CallsOf(d) : d \in D} |-> NewChannel(CallsMaxsize)]
    /\ pc = [t \in UNION {WorkerThreads(d) : d \in D} \cup {LoopThread} |->
                    IF t = LoopThread THEN "run" ELSE "iter"]
    /\ local = [t \in UNION {WorkerThreads(d) : d \in D} \cup {LoopThread}
                    |-> 0]
    /\ added = 0
    /\ enqueued = [c \in {CallsOf(d) : d \in D} |-> <<>>]
    /\ dequeued = [c \in {CallsOf(d) : d \in D} |-> <<>>]
    /\ dropped = [c \in {CallsOf(d) : d \in D} |-> <<>>]
    /\ wokenByClose = {}
    /\ deferrs = D
    /\ calls = <<>>
    /\ fut = <<>>
    /\ ready = <<>>
    /\ began = <<>>
    /\ sheep = 0
    /\ scheduled = <<>>

chanLogs == <<added, enqueued, dequeued, dropped, wokenByClose>>

\* deferr.op(a): __getattr__ raises AttributeError, or it finds the callable
\* and wrapper(a) makes the coroutine object; nothing of the body of wrapper
\* has run yet. The n-th call is given the argument n, so no two calls have
\* the same outcome.
Invoke(d, op) ==
    /\ pc[LoopThread] = "run"
    /\ NCalls < MaxCalls
    /\ calls' = Append(calls, [d |-> d, op |-> op, arg |-> NCalls + 1,
                               st |-> IF Getattr(op) = "None"
                                         THEN "AttributeError" ELSE "created",
                               res |-> NoFuture])
    /\ fut' = Append(fut, NoFuture)
    /\ UNCHANGED <<chan, pc, local, chanLogs, deferrs, ready, began, sheep,
                   scheduled>>

\* the coroutine of call c is run for the first time (awaited, or scheduled
\* as a task): the body of wrapper up to `await fut`. add is run on the event
\* loop's thread; were its wait condition true, that thread would block
\* inside not_full.wait() with the call left in "adding".
Start(c) ==
    LET id == CallsOf(calls[c].d)
        ch == chan[id]
    IN  /\ pc[LoopThread] = "run"
        /\ calls[c].st = "created"
        /\ fut' = [fut EXCEPT ![c] = Pending]
        /\ IF AddMustWait(ch)
              THEN /\ chan' = [chan EXCEPT ![id] = AddWait(@, LoopThread)]
                   /\ pc' = [pc EXCEPT ![LoopThread] = "add_wait"]
                   /\ local' = [local EXCEPT ![LoopThread] = c]
                   /\ calls' = [calls EXCEPT ![c].st = "adding"]
                   /\ UNCHANGED enqueued
              ELSE /\ \E ch2 \in AddTail(ch, c) :
                            chan' = [chan EXCEPT ![id] = ch2]
                   /\ enqueued' = [enqueued EXCEPT ![id] =
                            IF ch.is_open THEN Append(@, c) ELSE @]
                   /\ calls' = [calls EXCEPT ![c].st = "awaiting"]
                   /\ UNCHANGED <<pc, local>>
        /\ UNCHANGED <<added, dequeued, dropped, wokenByClose, deferrs, ready,
                       began, sheep, scheduled>>

\* lines 112-117 past the wait: the round of __iter__ ends and, when it
\* yields a call, caller_thread enters f(*args, **kwargs); between the pop
\* and the call the thread touches nothing another thread can see
WorkerTake(w) ==
    /\ IterFinish(w, IteratedBy(w), "exec", TRUE)
    /\ began' = IF IterResult(chan[IteratedBy(w)]) = "yield"
                    THEN Append(began, PopLeft(chan[IteratedBy(w)].queue).item)
                    ELSE began
    /\ UNCHANGED <<added, enqueued, dropped, wokenByClose, deferrs, calls,
                   fut, ready, sheep, scheduled>>

\* caller_thread at `for ... in self.calls`, up to the wait or into the call
WorkerIter(w) ==
    /\ pc[w] = "iter"
    /\ IF IterMustWait(chan[IteratedBy(w)])
          THEN /\ chan' = [chan EXCEPT ![IteratedBy(w)] = IterWait(@, w)]
               /\ pc' = [pc EXCEPT ![w] = "it_wait"]
               /\ UNCHANGED <<local, chanLogs, dispVars>>
          ELSE WorkerTake(w)

\* caller_thread back from not_empty.wait()
WorkerIterResume(w) ==
    /\ pc[w] = "it_wait"
    /\ w \notin chan[IteratedBy(w)].not_empty
    /\ WorkerTake(w)

\* a worker that calls fut.set_result and fut.set_exception itself
FinishDirect(w) ==
    LET c == local[w]
        o == Outcome(calls[c].op, calls[c].arg)
    IN  /\ pc[w] = "exec"
        /\ fut' = [fut EXCEPT ![c] =
                     IF o.kind = "return"
                         THEN [state |-> "result", val |-> o.val]
                     ELSE IF Caught(o.kind)
                         THEN [state |-> "exception", val |-> o.val]
                     ELSE @]
        /\ pc' = [pc EXCEPT ![w] =
                    IF o.kind = "return" \/ Caught(o.kind)
                        THEN "iter" ELSE "raised"]
        /\ local' = [local EXCEPT ![w] = 0]
        /\ UNCHANGED <<chan, chanLogs, deferrs, calls, ready, began, sheep,
                       scheduled>>

\* f(*args, **kwargs) ends: the callback is handed to call_soon_threadsafe,
\* or the exception leaves caller_thread and the thread ends
Finish(w) ==
    LET c == local[w]
        o == Outcome(calls[c].op, calls[c].arg)
    IN  /\ pc[w] = "exec"
        /\ ready' =
              IF o.kind = "return"
                  THEN Append(ready, [call |-> c, method |-> "set_result",
                                      val |-> o.val])
              ELSE IF Caught(o.kind)
                  THEN Append(ready, [call |-> c, method |-> "set_exception",
                                      val |-> o.val])
              ELSE ready
        /\ pc' = [pc EXCEPT ![w] =
                    IF o.kind = "return" \/ Caught(o.kind)
                        THEN "iter" ELSE "raised"]
        /\ scheduled' =
              IF o.kind = "return"
                  THEN Append(scheduled, [call |-> c, method |-> "set_result"])
              ELSE IF Caught(o.kind)
                  THEN Append(scheduled,
                              [call |-> c, method |-> "set_exception"])
              ELSE scheduled
        /\ local' = [local EXCEPT ![w] = 0]
        /\ UNCHANGED <<chan, chanLogs, deferrs, calls, fut, began, sheep>>

\* the event loop runs the oldest scheduled callback: fut.set_result(r) or
\* fut.set_exception(e)
RunCallback ==
    /\ pc[LoopThread] = "run"
    /\ ready # <<>>
    /\ LET cb == Head(ready)
       IN  fut' = [fut EXCEPT ![cb.call] =
                     IF @.state = "pending"
                         THEN [state |-> IF cb.method = "set_result"
                                            THEN "result" ELSE "exception",
                               val |-> cb.val]
                         ELSE @]
    /\ ready' = Tail(ready)
    /\ UNCHANGED <<chan, pc, local, chanLogs, deferrs, calls, began, sheep,
                   scheduled>>

\* `await fut` of call c ends: the coroutine gets the result or the exception
Resume(c) ==
    /\ pc[LoopThread] = "run"
    /\ calls[c].st = "awaiting"
    /\ fut[c].state \in {"result", "exception"}
    /\ calls' = [calls EXCEPT ![c].st = IF fut[c].state = "result"
                                           THEN "returned" ELSE "raised",
                              ![c].res = fut[c]]
    /\ UNCHANGED <<chan, pc, local, chanLogs, deferrs, fut, ready, began,
                   sheep, scheduled>>

\* one iteration of count_sheep, a task of the same event loop
CountSheep ==
    /\ pc[LoopThread] = "run"
    /\ sheep < MaxSheep
    /\ sheep' = sheep + 1
    /\ UNCHANGED <<chan, pc, local, chanLogs, deferrs, calls, fut, ready,
                   began, scheduled>>

\* deferr.calls.close(); a close() of a closed channel changes nothing
CloseCalls(d) ==
    /\ chan[CallsOf(d)].is_open
    /\ chan' = [chan EXCEPT ![CallsOf(d)] = CloseChannel(@)]
    /\ wokenByClose' = wokenByClose \cup chan[CallsOf(d)].not_empty
                                    \cup chan[CallsOf(d)].not_full
    /\ UNCHANGED <<pc, local, added, enqueued, dequeued, dropped, dispVars>>

\* the steps of calls through DeferredCallers whose channels stay open
CallNext ==
    \/ \E d \in Dispatchers, op \in Attrs : Invoke(d, op)
    \/ \E c \in 1..NCalls : Start(c)
    \/ \E w \in Workers : WorkerIter(w)
    \/ \E w \in Workers : WorkerIterResume(w)
    \/ \E w \in Workers : Finish(w)
    \/ RunCallback
    \/ \E c \in 1..NCalls : Resume(c)

Next ==
    \/ CallNext
    \/ CountSheep
    \/ \E d \in Dispatchers : CloseCalls(d)

\* example.py: one DeferredCaller, `deferr`
Init == DispInit({1})

Spec == Init /\ [][Next]_vars

\* the worker threads and the event loop are scheduled, and every callable
\* comes back; the channels stay open
FairSpec ==
    /\ Init /\ [][CallNext]_vars
    /\ \A w \in WorkerThreads(1) :
            /\ WF_vars(WorkerIter(w))
            /\ WF_vars(WorkerIterResume(w))
            /\ WF_vars(Finish(w))
    /\ WF_vars(RunCallback)
    /\ \A c \in 1..MaxCalls : WF_vars(c <= NCalls /\ Resume(c))

\* the worker threads are scheduled and every callable comes back, while
\* the channel may be closed at any time
FairCloseSpec ==
    /\ Spec
    /\ \A w \in WorkerThreads(1) :
            /\ WF_vars(WorkerIter(w))
            /\ WF_vars(WorkerIterResume(w))
            /\ WF_vars(Finish(w))

\* two DeferredCaller objects used from one event loop
ParSpec == DispInit({1, 2}) /\ [][CallNext]_vars

(***************************************************************************)
(* Definitions the statements about calls share.                           *)
(***************************************************************************)
Range(q) == {q[i] : i \in 1..Len(q)}

\* the call was entered before another one was
BeganBefore(a, b) ==
    \E i, j \in 1..Len(began) : i < j /\ began[i] = a /\ began[j] = b

\* the calls of DeferredCaller d that a worker thread is executing
Executing(d) ==
    {local[w] : w \in {x \in Workers : pc[x] = "exec" /\ calls[local[x]].d = d}}

\* the callable of call c was entered and has ended
Executed(c) ==
    c \in Range(began) /\ \A w \in Workers : ~(pc[w] = "exec" /\ local[w] = c)

\* what the future of call c has to hold once the callable has ended
Expected(c) ==
    LET o == Outcome(calls[c].op, calls[c].arg)
    IN  [state |-> IF o.kind = "return" THEN "result" ELSE "exception",
         val |-> o.val]

\* the callback of call c waits in the event loop
Scheduled(c) == \E i \in 1..Len(ready) : ready[i].call = c

(***************************************************************************)
(* C1: of the calls made through one DeferredCaller, at most one is being  *)
(* executed at any time.                                                   *)
(***************************************************************************)
C1_AtMostOneExecuting ==
    \A d \in Dispatchers : Cardinality(Executing(d)) <= 1

\* one call is executing while another call of the same object is queued
C1_Witness ==
    \E d \in Dispatchers :
        /\ Executing(d) # {}
        /\ chan[CallsOf(d)].queue # <<>>

(***************************************************************************)
(* C2: as claimed: of two calls of one DeferredCaller, the one whose       *)
(* awaitable was obtained first (deferr.op(a) before deferr.op(b)) is      *)
(* entered first, however the two awaitables are awaited later.            *)
(***************************************************************************)
C2_InvokeOrder ==
    \A a, b \in 1..NCalls :
        (a < b /\ calls[a].d = calls[b].d /\ b \in Range(began))
            => BeganBefore(a, b)

(***************************************************************************)
(* C2, amended: of two calls of one DeferredCaller, the one whose work     *)
(* item was enqueued first (whose coroutine ran first) is entered first,   *)
(* and no call is entered whose work item was not enqueued.                *)
(***************************************************************************)
C2_EnqueueOrder ==
    /\ \A b \in Range(began) : b \in Range(enqueued[CallsOf(calls[b].d)])
    /\ \A c \in DOMAIN enqueued :
         \A i, j \in 1..Len(enqueued[c]) :
            (i < j /\ enqueued[c][j] \in Range(began))
                => BeganBefore(enqueued[c][i], enqueued[c][j])

\* two calls of one object were entered, the second awaitable first
C2_Witness ==
    \E a, b \in 1..NCalls :
        /\ a < b
        /\ calls[a].d = calls[b].d
        /\ BeganBefore(b, a)

(***************************************************************************)
(* C3: once the callable of a call has ended, the outcome of that very     *)
(* invocation (the value returned or the failure raised) is on its way to  *)
(* the call's future or in it, and a caller that has resumed has got it.   *)
(***************************************************************************)
C3_OutcomeDelivered ==
    \A c \in 1..NCalls :
        /\ Executed(c) => (Scheduled(c) \/ fut[c] = Expected(c))
        /\ fut[c].state \in {"result", "exception"} => fut[c] = Expected(c)
        /\ calls[c].st \in {"returned", "raised"} => calls[c].res = Expected(c)

(***************************************************************************)
(* C4: a callable that raises, whatever it raises, does not end the        *)
(* worker thread of its DeferredCaller.                                    *)
(***************************************************************************)
C4_WorkerSurvivesFailure ==
    \A c \in 1..NCalls :
        (Executed(c) /\ Outcome(calls[c].op, calls[c].arg).kind # "return")
            => \A w \in WorkerThreads(calls[c].d) : pc[w] # "raised"

(***************************************************************************)
(* C5: with the channel never closed, every callable coming back, and the  *)
(* worker thread and the event loop scheduled, every call that has         *)
(* enqueued its work item gets its awaiting caller resumed.                *)
(***************************************************************************)
C5_EveryCallResumes ==
    \A c \in 1..MaxCalls :
        (c <= NCalls /\ calls[c].st = "awaiting")
            ~> (c <= NCalls /\ calls[c].st \in {"returned", "raised"})

(***************************************************************************)
(* C6: the event loop's thread never waits inside add, and while a call is *)
(* executing on a worker thread the other tasks of the loop can step.      *)
(***************************************************************************)
C6_LoopNeverStalls ==
    /\ pc[LoopThread] = "run"
    /\ \A c \in 1..NCalls : calls[c].st # "adding"
    /\ ((\E w \in Workers : pc[w] = "exec") /\ sheep < MaxSheep)
            => ENABLED CountSheep

\* a call is executing, another is queued behind it, count_sheep has work
C6_Witness ==
    /\ \E w \in Workers : pc[w] = "exec"
    /\ \E c \in DOMAIN chan : Len(chan[c].queue) >= MaxCapacity
    /\ sheep < MaxSheep
    /\ ENABLED CountSheep

(***************************************************************************)
(* C7: whatever the other DeferredCallers are executing, a work item at    *)
(* the head of the queue of a DeferredCaller that is executing nothing,    *)
(* and whose worker thread has not ended, can be taken and entered; a      *)
(* scheduled callback can run and a caller whose future is done can resume.*)
(***************************************************************************)
TakeHead(d) ==
    \E w \in Workers :
        /\ WorkerIter(w) \/ WorkerIterResume(w)
        /\ began' = Append(began, Head(chan[CallsOf(d)].queue))

C7_Independent ==
    /\ \A d \in Dispatchers :
        LET q == chan[CallsOf(d)].queue
        IN  (/\ q # <<>>
             /\ calls[Head(q)].d = d
             /\ Executing(d) = {}
             /\ \A w \in WorkerThreads(d) : pc[w] \notin {"raised", "returned"})
                => ENABLED TakeHead(d)
    /\ ready # <<>> => ENABLED RunCallback
    /\ \A c \in 1..NCalls :
            (calls[c].st = "awaiting" /\ fut[c].state \in {"result", "exception"})
                => ENABLED Resume(c)

\* calls of two DeferredCallers are executing at the same time
C7_Witness ==
    \E d1, d2 \in Dispatchers : 
        d1 # d2 /\ Executing(d1) # {} /\ Executing(d2) # {}

(***************************************************************************)
(* C8: on a channel that stays open, what was appended is what was popped  *)
(* followed by what is still buffered: nothing lost, doubled or reordered. *)
(***************************************************************************)
C8_FifoNothingLost ==
    \A c \in DOMAIN chan :
        chan[c].is_open => enqueued[c] = dequeued[c] \o chan[c].queue

(***************************************************************************)
(* C9: a channel created with a capacity never buffers more items than     *)
(* that capacity.                                                          *)
(***************************************************************************)
C9_LenWithinCapacity ==
    \A c \in DOMAIN chan :
        chan[c].maxsize # NoMaxsize => Len(chan[c].queue) <= chan[c].maxsize

\* an add that came back from its wait appended to a full deque
C9_Witness ==
    \E c \in DOMAIN chan :
        /\ chan[c].maxsize # NoMaxsize
        /\ dropped[c] # <<>>
        /\ Len(chan[c].queue) = chan[c].maxsize

(***************************************************************************)
(* C10: once the channel is closed, every thread blocked in add or in the  *)
(* iteration comes back: eventually no thread is inside a wait.            *)
(***************************************************************************)
NoneBlocked == \A t \in DOMAIN pc : pc[t] \notin {"add_wait", "it_wait"}

C10_CloseWakesAll ==
    [](~chan[TheChannel].is_open => <>NoneBlocked)

\* close() found a producer and a consumer waiting, and both came back
C10_Witness ==
    /\ ~chan[TheChannel].is_open
    /\ wokenByClose \cap Producers # {}
    /\ wokenByClose \cap Consumers # {}
    /\ NoneBlocked

(***************************************************************************)
(* C11: once the channel is closed no item is popped any more, whatever is *)
(* still buffered, and an iteration that has ended stays ended.            *)
(***************************************************************************)
C11_AbandonOnClose ==
    [][\A c \in DOMAIN chan :
          ~chan[c].is_open =>
              /\ dequeued'[c] = dequeued[c]
              /\ \A t \in DOMAIN pc : pc[t] = "returned" => pc'[t] = "returned"
      ]_vars

\* a consumer's iteration has ended with items left in the buffer
C11_Witness ==
    /\ ~chan[TheChannel].is_open
    /\ chan[TheChannel].queue # <<>>
    /\ \E k \in Consumers : pc[k] = "returned"

(***************************************************************************)
(* C12: once the channel is closed its buffer never changes and it stays   *)
(* closed: an add finding it closed, at once or after its wait, appends    *)
(* nothing, and no add ends with an exception.                             *)
(***************************************************************************)
C12_NoAppendAfterClose ==
    [][\A c \in DOMAIN chan :
          /\ ~chan[c].is_open =>
                /\ ~chan'[c].is_open
                /\ chan'[c].queue = chan[c].queue
                /\ enqueued'[c] = enqueued[c]
          /\ \A p \in Producers \cap DOMAIN pc : pc'[p] \in {"idle", "add_wait"}
      ]_vars

\* a producer that close() found waiting is back from add, and an add was
\* called that appended nothing
C12_Witness ==
    /\ ~chan[TheChannel].is_open
    /\ \E p \in wokenByClose \cap Producers : pc[p] = "idle"
    /\ added > Len(enqueued[TheChannel])
    /\ \A p \in Producers : pc[p] = "idle"

(***************************************************************************)
(* C18: no operation of the channel ends with an exception: a consumer     *)
(* never pops from an empty buffer.                                        *)
(***************************************************************************)
C18_NoFailureSurfaces ==
    \A t \in DOMAIN pc : pc[t] # "raised"

(***************************************************************************)
(* C13: in the docstring example the worker's loop ends only after it has  *)
(* received the items 1, 2, 3 in that order: whenever the main thread has  *)
(* added three items and closed the channel and the worker's iteration has *)
(* ended, the worker has received exactly <<1, 2, 3>>.                     *)
(***************************************************************************)
C13_DocstringOutput ==
    ( /\ added = DocItems
      /\ Len(enqueued[TheChannel]) = DocItems
      /\ ~chan[TheChannel].is_open
      /\ pc[DocWorker] = "returned" )
        => dequeued[TheChannel] = <<1, 2, 3>>

\* call c was handed to add, the channel of its DeferredCaller is closed and
\* the worker has not taken it: it is still buffered, or add discarded it
Abandoned(c) ==
    /\ c <= NCalls
    /\ calls[c].st = "awaiting"
    /\ ~chan[CallsOf(calls[c].d)].is_open
    /\ c \notin Range(began)

(***************************************************************************)
(* C14: a call the worker has not taken when the channel is closed stays   *)
(* as it is for ever: it is never executed, no callback is scheduled for   *)
(* its future, the future stays pending and the coroutine stays at         *)
(* `await fut`, with no exception raised into it.                          *)
(***************************************************************************)
C14_AbandonedCompletion ==
    [][\A c \in 1..NCalls :
          Abandoned(c) =>
              /\ fut[c] = Pending
              /\ \A i \in 1..Len(ready) : ready[i].call # c
              /\ Abandoned(c)'
              /\ fut'[c] = Pending
      ]_vars

\* the worker has left its loop with one call still buffered and another
\* discarded by add, both awaited
C14_Witness ==
    /\ \E c \in 1..NCalls :
          Abandoned(c) /\ c \in Range(chan[CallsOf(calls[c].d)].queue)
    /\ \E c \in 1..NCalls :
          Abandoned(c) /\ c \notin Range(enqueued[CallsOf(calls[c].d)])
    /\ \A w \in Workers : pc[w] = "returned"

(***************************************************************************)
(* C16: asking a DeferredCaller for a name its object does not have ends   *)
(* with AttributeError at once: no future is ever created for it, it is    *)
(* never written to the channel, and the step that asks leaves the         *)
(* channels and the threads as they were.                                  *)
(***************************************************************************)
C16_UnknownOperation ==
    [][\A c \in 1..Len(calls') :
          calls'[c].op \notin Lib =>
              /\ calls'[c].st = "AttributeError"
              /\ fut'[c] = NoFuture
              /\ c \notin Range(chan'[CallsOf(calls'[c].d)].queue)
              /\ c \notin Range(enqueued'[CallsOf(calls'[c].d)])
              /\ c > NCalls => (chan' = chan /\ pc' = pc /\ ready' = ready)
      ]_vars

\* a missing name was asked for, and a call made after it went on to its end
C16_Witness ==
    \E c, e \in 1..NCalls :
        /\ calls[c].st = "AttributeError"
        /\ e > c
        /\ calls[e].st = "returned"

(***************************************************************************)
(* C17: a future changes only in a step of the event loop's thread.  A     *)
(* step in which a worker thread moves changes no future: when the         *)
(* callable has returned or raised an Exception, the step appends one      *)
(* callback to those scheduled on the loop.  A future gets its result or   *)
(* its exception only in the step that runs the oldest such callback.      *)
(***************************************************************************)
C17_OnlyLoopResolves ==
    [][/\ \A w \in Workers :
            (pc'[w] # pc[w] \/ local'[w] # local[w]) =>
                /\ \A c \in 1..NCalls : fut'[c] = fut[c]
                /\ (pc[w] = "exec" /\ pc'[w] = "iter") =>
                      /\ Len(ready') = Len(ready) + 1
                      /\ ready'[Len(ready')].call = local[w]
       /\ \A c \in 1..NCalls :
            (fut'[c] # fut[c] /\ fut'[c] # Pending) =>
                /\ pc[LoopThread] = "run"
                /\ ready # <<>>
                /\ Head(ready).call = c
                /\ ready' = Tail(ready)
      ]_vars

\* one future was given a result and another an exception, both by
\* callbacks the worker had scheduled
C17_Witness ==
    \E c, e \in 1..NCalls :
        /\ fut[c].state = "result"
        /\ fut[e].state = "exception"
        /\ \A w \in Workers : pc[w] \in {"iter", "it_wait"}

\* the callbacks handed to call_soon_threadsafe for the future of call c
ScheduledFor(c) == {i \in 1..Len(scheduled) : scheduled[i].call = c}

(***************************************************************************)
(* C15: no future is given more than one callback, and the future of a     *)
(* call whose callable has ended was given exactly one, set_result or      *)
(* set_exception.                                                          *)
(***************************************************************************)
C15_ResolvedExactlyOnce ==
    \A c \in 1..NCalls :
        /\ Cardinality(ScheduledFor(c)) <= 1
        /\ Executed(c) => Cardinality(ScheduledFor(c)) = 1

(***************************************************************************)
(* C19: once the channel of a DeferredCaller is closed its worker thread   *)
(* ends, whether the close found it waiting in not_empty.wait() or inside  *)
(* a callable that comes back; a worker that has left its loop stays out   *)
(* of it, and no call is entered while the channel is closed.              *)
(***************************************************************************)
C19_WorkerExitsAfterClose ==
    /\ \A w \in WorkerThreads(1) :
          [](~chan[IteratedBy(w)].is_open
                => <>(pc[w] \in {"returned", "raised"}))
    /\ [][\A w \in Workers :
            /\ pc[w] = "returned" => pc'[w] = "returned"
            /\ ~chan[IteratedBy(w)].is_open =>
                  ~(pc[w] # "exec" /\ pc'[w] = "exec")
         ]_vars

\* close() found the worker waiting for a call, and the worker has returned
C19_Witness ==
    \E w \in Workers :
        /\ w \in wokenByClose
        /\ pc[w] = "returned"
        /\ ~chan[IteratedBy(w)].is_open

(***************************************************************************)
(* C20: a call the worker holds when the channel is closed is not lost:    *)
(* the close leaves the worker inside the callable, and when the callable  *)
(* ends the worker schedules the callback that gives the call's future the *)
(* callable's outcome.                                                     *)
(***************************************************************************)
C20_TakenCallSurvivesClose ==
    [][\A w \in Workers :
          /\ (pc[w] = "exec" /\ chan'[IteratedBy(w)] # chan[IteratedBy(w)]) =>
                (pc'[w] = "exec" /\ local'[w] = local[w])
          /\ ( /\ pc[w] = "exec"
               /\ pc'[w] # "exec"
               /\ ~chan[IteratedBy(w)].is_open ) =>
                /\ Len(ready') = Len(ready) + 1
                /\ ready'[Len(ready')].call = local[w]
                /\ ready'[Len(ready')].val =
                      Expected(local[w]).val
                /\ (ready'[Len(ready')].method = "set_result")
                      <=> (Expected(local[w]).state = "result")
      ]_vars

====
